---- MODULE Spec2Model ----
(***************************************************************************)
(* The book cache program of golang-concurrency, in its three versions:    *)
(*   "nolock"  : no WaitGroup, no mutex        (src/unnamed/part_001)      *)
(*   "mutex"   : sync.WaitGroup + sync.Mutex   (src/main.go)               *)
(*   "rwmutex" : sync.WaitGroup + sync.RWMutex (src/unnamed/part_000)      *)
(* main loops, and in every iteration draws an id and starts two           *)
(* goroutines: one calls queryCache(id), the other queryDatabase(id).      *)
(* A goroutine takes one step per operation on shared state (the mutex,    *)
(* the cache map, the WaitGroup counter, the start of a goroutine); the     *)
(* statements between two such operations touch only its own locals and    *)
(* belong to the step that follows them.  time.Sleep orders nothing: a     *)
(* sleeping goroutine may wake at any later moment.                        *)
(***************************************************************************)
EXTENDS Integers, Sequences, FiniteSets, TLC

\* Bounds of the model.  The source loops 10 times (main.go:26) and draws its
\* ids from 1..10 (main.go:28); the model keeps the shape with fewer of each.
NumIters == 2
MaxId == 3

Iters == 1..NumIters
Ids == 1..MaxId
Versions == {"nolock", "mutex", "rwmutex"}

\* The Book record type and its zero value Book{} (main.go:107).
MkBook(n) == [ID |-> n, Title |-> n, Author |-> n, YearPublished |-> n]
ZeroBook == MkBook(0)

\* The books slice ranged over by queryDatabase (main.go:98): an immutable
\* ordered sequence of records with unique IDs, here the records 1 and 2, so
\* that the ids main draws hit the store or miss it.
books ==
    << [ID |-> 1, Title |-> 11, Author |-> 21, YearPublished |-> 31],
       [ID |-> 2, Title |-> 12, Author |-> 22, YearPublished |-> 32] >>

Book == {books[n] : n \in 1..Len(books)} \cup {ZeroBook}

None == <<"none">>
Qc(i) == <<"qc", i>>
Qd(i) == <<"qd", i>>

VARIABLES
    version,    \* which of the three programs runs
    mainPc,     \* main's position
    iter,       \* main's loop variable i, counted from 1
    id,         \* main's local id of the current iteration
    wg,         \* the WaitGroup counter
    cache,      \* the cache map: a function from the keys present to Books
    mOwner,     \* sync.Mutex: the goroutine between Lock and Unlock, or None
    rwPending,  \* sync.RWMutex: the goroutine inside Lock, waiting for the readers, or None
    rwWriter,   \* sync.RWMutex: the goroutine between Lock and Unlock, or None
    rwReaders,  \* sync.RWMutex: the goroutines between RLock and RUnlock
    qc,         \* per iteration, the goroutine calling queryCache: [pc, id, b, ok]
    qd,         \* per iteration, the goroutine calling queryDatabase: [pc, id, b, ok]
    out,        \* what has been printed: the goroutines that printed their book
    crashed,    \* the runtime stopped the program (fatal error or panic)
    dbReturned  \* history: per queryCache call, the Books that queryDatabase calls
                \* for its id had already returned when the call took its first step

vars == <<version, mainPc, iter, id, wg, cache, mOwner, rwPending, rwWriter,
          rwReaders, qc, qd, out, crashed, dbReturned>>

\* The channel programs of notes.md: main makes a channel and a WaitGroup,
\* starts a receiving and a sending goroutine and waits for both.
VARIABLES
    prog,       \* which channel program runs: [mode, msgs, close, cap, add], or NoProg
    chMain,     \* main's position in the channel program
    chWg,       \* the channel program's WaitGroup counter
    ch,         \* the channel: [buf, closed]
    sender,     \* the sending goroutine: [pc, n], n the sends completed
    receiver,   \* the receiving goroutine: [pc, got, msg, ok, afterClose]
    printed,    \* the values printed by the receiving goroutine, in order
    fatal       \* "none", or how the runtime stopped the program

chanVars == <<prog, chMain, chWg, ch, sender, receiver, printed, fatal>>

allVars == <<vars, chanVars>>

NoProg == [mode |-> "none", msgs |-> <<>>, close |-> FALSE, cap |-> 0, add |-> 0]

\* No channel program runs.
ChanIdle ==
    /\ prog = NoProg
    /\ chMain = "idle"
    /\ chWg = 0
    /\ ch = [buf |-> <<>>, closed |-> FALSE]
    /\ sender = [pc |-> "idle", n |-> 0]
    /\ receiver = [pc |-> "idle", got |-> <<>>, msg |-> 0, ok |-> FALSE,
                   afterClose |-> FALSE]
    /\ printed = <<>>
    /\ fatal = "none"

Locked == version \in {"mutex", "rwmutex"}

\* The program runs as long as main has not returned and nothing was fatal.
Running == mainPc # "exited" /\ ~crashed

Init ==
    /\ ChanIdle
    /\ version \in Versions
    /\ mainPc = "loop"
    /\ iter = 1
    /\ id = 0
    /\ wg = 0
    /\ cache = <<>>
    /\ mOwner = None
    /\ rwPending = None
    /\ rwWriter = None
    /\ rwReaders = {}
    /\ qc = [i \in Iters |-> [pc |-> "idle", id |-> 0, b |-> ZeroBook, ok |-> FALSE]]
    /\ qd = [i \in Iters |-> [pc |-> "idle", id |-> 0, b |-> ZeroBook, ok |-> FALSE]]
    /\ out = {}
    /\ crashed = FALSE
    /\ dbReturned = [i \in Iters |-> {}]

----------------------------------------------------------------------------
\* The cache map, the locks and the WaitGroup

\* Mutant of CacheGet: the lookup reports every key as found.
CacheGetFound(c, k) ==
    [b |-> IF k \in DOMAIN c THEN c[k] ELSE ZeroBook, ok |-> TRUE]

\* Mutant of CacheGet: the lookup reports every key as missing.
CacheGetMiss(c, k) == [b |-> ZeroBook, ok |-> FALSE]

\* b, ok := cache[id]  (main.go:91): the entry and true, or Book{} and false.
CacheGet(c, k) ==
    IF k \in DOMAIN c THEN [b |-> c[k], ok |-> TRUE]
                      ELSE [b |-> ZeroBook, ok |-> FALSE]

\* Mutant of CachePut: the write stores Book{} instead of b.
CachePutZero(c, k, b) ==
    [x \in (DOMAIN c) \cup {k} |-> IF x = k THEN ZeroBook ELSE c[x]]

\* Mutant of CachePut: the write drops the entries of the smaller keys.
CachePutDropping(c, k, b) ==
    [x \in {y \in DOMAIN c : y > k} \cup {k} |-> IF x = k THEN b ELSE c[x]]

\* Mutant of CachePut: the write replaces the map by the one entry.
CachePutOnly(c, k, b) == [x \in {k} |-> b]

\* cache[id] = b  (main.go:101): insert or overwrite the entry of k.
CachePut(c, k, b) ==
    [x \in (DOMAIN c) \cup {k} |-> IF x = k THEN b ELSE c[x]]

\* Mutant of MutexFree: Lock returns whoever holds the mutex.
MutexAlwaysFree == TRUE

\* m.Lock() of sync.Mutex can return: no goroutine is between Lock and Unlock
\* (main.go:90, main.go:100).
MutexFree == mOwner = None

\* Mutant of RLockFree: queryCache takes the lock as a writer does.
RLockExclusive == rwPending = None /\ rwWriter = None /\ rwReaders = {}

\* m.RLock() of sync.RWMutex can return: no writer holds or awaits the lock
\* (part_000:90, part_000:150-157).
RLockFree == rwPending = None /\ rwWriter = None

\* m.Lock() of sync.RWMutex can shut out later readers and writers: no other
\* writer holds or awaits the lock (part_000:100).
WLockFree == rwPending = None /\ rwWriter = None

\* m.Lock() of sync.RWMutex can return: the readers that held the lock have
\* finished (part_000:100, part_000:152-155).
ReadersGone == rwReaders = {}

\* Mutant of AddCount: main registers one task for its two goroutines.
AddCountOne == 2 - 1

\* The number of tasks main registers per iteration: wg.Add(2) (main.go:41).
AddCount == 2

\* Mutant of WgDone: the call leaves the counter as it is.
WgDoneNothing(n) == n

\* wg.Done(): the counter after the call (main.go:49, main.go:56).
WgDone(n) == n - 1

\* Goroutine g is between a Lock or RLock that returned and its Unlock or
\* RUnlock.
HoldsLock(g) ==
    IF version = "mutex" THEN mOwner = g
    ELSE rwWriter = g \/ g \in rwReaders

\* Goroutine positions at the two statements that touch the map.
AtRead(i) == qc[i].pc = "read"
AtWrite(i) == qd[i].pc = "write"

\* In the version without a mutex, the map read of queryCache (part_001:64) is
\* unordered with a map write that another goroutine is executing.
ReadRaces(i) == version = "nolock" /\ \E j \in Iters : AtWrite(j)

\* In the version without a mutex, the map write of queryDatabase (part_001:72)
\* is unordered with a map read or another map write being executed.
WriteRaces(i) ==
    version = "nolock"
        /\ \/ \E j \in Iters : AtRead(j)
           \/ \E j \in Iters \ {i} : AtWrite(j)

\* The Books that completed queryDatabase(k) calls have returned with true.
ReturnedBy(k) ==
    {qd[j].b : j \in {x \in Iters : qd[x].id = k /\ qd[x].ok
                                     /\ qd[x].pc \in {"done", "end"}}}

\* Mutant of ScanFrom: the loop takes the first record whatever its ID.
ScanFirst(n, k) == IF n > Len(books) THEN 0 ELSE n

\* for _, b := range books { if b.ID == id { ... } }  (main.go:98-99): the
\* index of the first record from position n on whose ID is k, or 0.
RECURSIVE ScanFrom(_, _)
ScanFrom(n, k) ==
    IF n > Len(books) THEN 0
    ELSE IF books[n].ID = k THEN n
    ELSE ScanFrom(n + 1, k)

----------------------------------------------------------------------------
\* main

\* Mutant of MainLoop: wg.Add(2) stands after the two go statements, so the
\* tasks of an iteration are registered when its goroutines already run.
MainLoopAddLate ==
    /\ Running /\ mainPc = "loop"
    /\ wg' = IF Locked /\ iter > 1 THEN wg + AddCount ELSE wg
    /\ IF iter <= NumIters
       THEN /\ \E n \in Ids : id' = n
            /\ mainPc' = "go"
       ELSE /\ id' = id
            /\ mainPc' = IF Locked THEN "wait" ELSE "finalSleep"
    /\ UNCHANGED <<version, iter, cache, mOwner, rwPending, rwWriter, rwReaders,
                   qc, qd, out, crashed, dbReturned>>
    /\ UNCHANGED chanVars

\* for i := 0; i < 10; i++ { id := randNum.Intn(10) + 1; wg.Add(2) ... }
\* (main.go:26-41; part_001:20-21 has no wg.Add).  After the last iteration
\* main stands at wg.Wait() (main.go:82) or, in the version without a
\* WaitGroup, at time.Sleep(2 * time.Second) (part_001:60).
MainLoop ==
    /\ Running /\ mainPc = "loop"
    /\ IF iter <= NumIters
       THEN /\ \E n \in Ids : id' = n
            /\ wg' = IF Locked THEN wg + AddCount ELSE wg
            /\ mainPc' = "go"
       ELSE /\ id' = id
            /\ wg' = wg
            /\ mainPc' = IF Locked THEN "wait" ELSE "finalSleep"
    /\ UNCHANGED <<version, iter, cache, mOwner, rwPending, rwWriter, rwReaders,
                   qc, qd, out, crashed, dbReturned>>
    /\ UNCHANGED chanVars

\* Mutant of MainGo: queryCache takes a lock in every version.
MainGoLocking ==
    /\ Running /\ mainPc = "go"
    /\ qc' = [qc EXCEPT ![iter] = [pc |-> "lock",
                                   id |-> id, b |-> ZeroBook, ok |-> FALSE]]
    /\ qd' = [qd EXCEPT ![iter] = [pc |-> "sleep", id |-> id,
                                   b |-> ZeroBook, ok |-> FALSE]]
    /\ iter' = iter + 1
    /\ mainPc' = "loop"
    /\ UNCHANGED <<version, id, wg, cache, mOwner, rwPending, rwWriter, rwReaders,
                   out, crashed, dbReturned>>
    /\ UNCHANGED chanVars

\* go func(id, wg, m) { queryCache(id, m) ... }(id, wg, m)
\* go func(id, wg, m) { queryDatabase(id, m) ... }(id, wg, m)
\* time.Sleep(150 * time.Millisecond); i++  (main.go:43-57, 76, 26)
\* The new goroutines stand at the first statement of queryCache (main.go:90,
\* part_001:64) and of queryDatabase (main.go:97).
MainGo ==
    /\ Running /\ mainPc = "go"
    /\ qc' = [qc EXCEPT ![iter] = [pc |-> IF Locked THEN "lock" ELSE "read",
                                   id |-> id, b |-> ZeroBook, ok |-> FALSE]]
    /\ qd' = [qd EXCEPT ![iter] = [pc |-> "sleep", id |-> id,
                                   b |-> ZeroBook, ok |-> FALSE]]
    /\ iter' = iter + 1
    /\ mainPc' = "loop"
    /\ UNCHANGED <<version, id, wg, cache, mOwner, rwPending, rwWriter, rwReaders,
                   out, crashed, dbReturned>>
    /\ UNCHANGED chanVars

\* wg.Wait() returns once the counter is zero, and main returns  (main.go:82-83)
MainWait ==
    /\ Running /\ mainPc = "wait"
    /\ wg = 0
    /\ mainPc' = "exited"
    /\ UNCHANGED <<version, iter, id, wg, cache, mOwner, rwPending, rwWriter, rwReaders,
                   qc, qd, out, crashed, dbReturned>>
    /\ UNCHANGED chanVars

\* Mutant of MainFinalSleep: main returns only when every goroutine it
\* started has ended.
MainFinalSleepJoins ==
    /\ Running /\ mainPc = "finalSleep"
    /\ \A i \in Iters : qc[i].pc = "end" /\ qd[i].pc = "end"
    /\ mainPc' = "exited"
    /\ UNCHANGED <<version, iter, id, wg, cache, mOwner, rwPending, rwWriter, rwReaders,
                   qc, qd, out, crashed, dbReturned>>
    /\ UNCHANGED chanVars

\* time.Sleep(2 * time.Second), and main returns  (part_001:60-61)
MainFinalSleep ==
    /\ Running /\ mainPc = "finalSleep"
    /\ mainPc' = "exited"
    /\ UNCHANGED <<version, iter, id, wg, cache, mOwner, rwPending, rwWriter, rwReaders,
                   qc, qd, out, crashed, dbReturned>>
    /\ UNCHANGED chanVars

----------------------------------------------------------------------------
\* The goroutine of main.go:43-50: queryCache(id, m), print, wg.Done()

\* m.Lock() / m.RLock() returns  (main.go:90, part_000:90)
QcLock(i) ==
    /\ Running /\ qc[i].pc = "lock"
    /\ IF version = "mutex"
       THEN /\ MutexFree
            /\ mOwner' = Qc(i)
            /\ UNCHANGED rwReaders
       ELSE /\ RLockFree
            /\ rwReaders' = rwReaders \cup {Qc(i)}
            /\ UNCHANGED mOwner
    /\ qc' = [qc EXCEPT ![i].pc = "read"]
    /\ dbReturned' = [dbReturned EXCEPT ![i] = ReturnedBy(qc[i].id)]
    /\ UNCHANGED <<version, mainPc, iter, id, wg, cache, rwPending, rwWriter, qd, out, crashed>>
    /\ UNCHANGED chanVars

\* The results a map read of key k can have.  A read that races with a write
\* (only in the version without a mutex) has no defined result: the runtime may
\* stop the program ("concurrent map read and map write"), or the read sees
\* the map before the write or the entry being written.
ReadResults(i) ==
    LET now == CacheGet(cache, qc[i].id)
    IN IF ReadRaces(i)
       THEN {[b |-> now.b, ok |-> now.ok, fatal |-> f] : f \in BOOLEAN}
            \cup {[b |-> qd[j].b, ok |-> TRUE, fatal |-> FALSE] :
                     j \in {x \in Iters : AtWrite(x) /\ qd[x].id = qc[i].id}}
       ELSE {[b |-> now.b, ok |-> now.ok, fatal |-> FALSE]}

\* b, ok := cache[id]; m.Unlock() / m.RUnlock(); return b, ok
\* (main.go:91-93, part_000:91-93; part_001:64-65 reads and returns)
QcRead(i) ==
    /\ Running /\ qc[i].pc = "read"
    /\ \E r \in ReadResults(i) :
            /\ crashed' = r.fatal
            /\ qc' = IF r.fatal THEN qc
                     ELSE [qc EXCEPT ![i].b = r.b, ![i].ok = r.ok, ![i].pc = "done"]
    /\ CASE version = "mutex" -> mOwner' = None /\ UNCHANGED rwReaders
         [] version = "rwmutex" -> rwReaders' = rwReaders \ {Qc(i)} /\ UNCHANGED mOwner
         [] OTHER -> UNCHANGED <<mOwner, rwReaders>>
    /\ dbReturned' = IF Locked THEN dbReturned
                     ELSE [dbReturned EXCEPT ![i] = ReturnedBy(qc[i].id)]
    /\ UNCHANGED <<version, mainPc, iter, id, wg, cache, rwPending, rwWriter, qd, out>>
    /\ UNCHANGED chanVars

\* if ok { fmt.Println("from cache"); fmt.Println(b) }; wg.Done()
\* (main.go:44-49; part_001:28-31 has no wg.Done()).  wg.Done() on a counter
\* of zero panics ("sync: negative WaitGroup counter").
QcDone(i) ==
    /\ Running /\ qc[i].pc = "done"
    /\ out' = IF qc[i].ok THEN out \cup {Qc(i)} ELSE out
    /\ IF Locked
       THEN IF WgDone(wg) < 0 THEN crashed' = TRUE /\ wg' = wg
                              ELSE crashed' = crashed /\ wg' = WgDone(wg)
       ELSE UNCHANGED <<wg, crashed>>
    /\ qc' = [qc EXCEPT ![i].pc = "end"]
    /\ UNCHANGED <<version, mainPc, iter, id, cache, mOwner, rwPending, rwWriter,
                   rwReaders, qd, dbReturned>>
    /\ UNCHANGED chanVars

----------------------------------------------------------------------------
\* The goroutine of main.go:51-57: queryDatabase(id, m), print, wg.Done()

\* Mutant of QdScan: queryDatabase calls m.Lock() before time.Sleep, and
\* sleeps and scans with the lock held.
QdScanLockFirst(i) ==
    /\ Running /\ qd[i].pc = "sleep"
    /\ IF ~HoldsLock(Qd(i))
       THEN /\ IF version = "mutex" THEN MutexFree ELSE WLockFree /\ ReadersGone
            /\ mOwner' = IF version = "mutex" THEN Qd(i) ELSE mOwner
            /\ rwWriter' = IF version = "rwmutex" THEN Qd(i) ELSE rwWriter
            /\ qd' = qd
       ELSE LET n == ScanFrom(1, qd[i].id)
            IN IF n = 0
               THEN /\ qd' = [qd EXCEPT ![i].pc = "done", ![i].b = ZeroBook,
                                        ![i].ok = FALSE]
                    /\ mOwner' = None /\ rwWriter' = None
               ELSE /\ qd' = [qd EXCEPT ![i].b = books[n], ![i].pc = "write"]
                    /\ UNCHANGED <<mOwner, rwWriter>>
    /\ UNCHANGED <<version, mainPc, iter, id, wg, cache, rwPending, rwReaders,
                   qc, out, crashed, dbReturned>>
    /\ UNCHANGED chanVars

\* time.Sleep(100 * time.Millisecond)
\* for _, b := range books { if b.ID == id { ... } }; return Book{}, false
\* (main.go:97-99, 107): the sleep and the scan up to the first match, where
\* the goroutine stands at m.Lock() (at the map write when there is no mutex),
\* or through the whole slice, where queryDatabase returns Book{}, false.
QdScan(i) ==
    /\ Running /\ qd[i].pc = "sleep"
    /\ LET n == ScanFrom(1, qd[i].id)
       IN qd' = IF n = 0
                THEN [qd EXCEPT ![i].pc = "done", ![i].b = ZeroBook, ![i].ok = FALSE]
                ELSE [qd EXCEPT ![i].b = books[n],
                                ![i].pc = IF Locked THEN "lock" ELSE "write"]
    /\ UNCHANGED <<version, mainPc, iter, id, wg, cache, mOwner, rwPending, rwWriter,
                   rwReaders, qc, out, crashed, dbReturned>>
    /\ UNCHANGED chanVars

\* m.Lock()  (main.go:100, part_000:100).  A sync.Mutex is taken when free.  On
\* a sync.RWMutex the writer first shuts out later readers and writers, then
\* waits for the readers inside to leave (QdLockWait).
QdLock(i) ==
    /\ Running /\ qd[i].pc = "lock"
    /\ IF version = "mutex"
       THEN /\ MutexFree
            /\ mOwner' = Qd(i)
            /\ qd' = [qd EXCEPT ![i].pc = "write"]
            /\ UNCHANGED rwPending
       ELSE /\ WLockFree
            /\ rwPending' = Qd(i)
            /\ qd' = [qd EXCEPT ![i].pc = "lockwait"]
            /\ UNCHANGED mOwner
    /\ UNCHANGED <<version, mainPc, iter, id, wg, cache, rwWriter, rwReaders,
                   qc, out, crashed, dbReturned>>
    /\ UNCHANGED chanVars

\* m.Lock() of sync.RWMutex returns  (part_000:100)
QdLockWait(i) ==
    /\ Running /\ qd[i].pc = "lockwait"
    /\ ReadersGone
    /\ rwPending' = None
    /\ rwWriter' = Qd(i)
    /\ qd' = [qd EXCEPT ![i].pc = "write"]
    /\ UNCHANGED <<version, mainPc, iter, id, wg, cache, mOwner, rwReaders,
                   qc, out, crashed, dbReturned>>
    /\ UNCHANGED chanVars

\* The maps a write of cache[k] = b can leave.  A write that races with another
\* access (only in the version without a mutex) has no defined result: the
\* runtime may stop the program ("concurrent map writes"), or the write is lost
\* or takes effect.
WriteResults(i) ==
    LET put == CachePut(cache, qd[i].id, qd[i].b)
    IN IF WriteRaces(i)
       THEN {[c |-> cache, fatal |-> TRUE], [c |-> cache, fatal |-> FALSE],
             [c |-> put, fatal |-> FALSE]}
       ELSE {[c |-> put, fatal |-> FALSE]}

\* Mutant of QdWrite: queryDatabase returns without m.Unlock().
QdWriteNoUnlock(i) ==
    /\ Running /\ qd[i].pc = "write"
    /\ \E r \in WriteResults(i) :
            /\ crashed' = r.fatal
            /\ cache' = r.c
            /\ qd' = IF r.fatal THEN qd
                     ELSE [qd EXCEPT ![i].pc = "done", ![i].ok = TRUE]
    /\ UNCHANGED <<mOwner, rwWriter>>
    /\ UNCHANGED <<version, mainPc, iter, id, wg, rwPending, rwReaders, qc, out,
                   dbReturned>>
    /\ UNCHANGED chanVars

\* cache[id] = b; m.Unlock(); return b, true
\* (main.go:101-103; part_001:72-73 writes and returns)
QdWrite(i) ==
    /\ Running /\ qd[i].pc = "write"
    /\ \E r \in WriteResults(i) :
            /\ crashed' = r.fatal
            /\ cache' = r.c
            /\ qd' = IF r.fatal THEN qd
                     ELSE [qd EXCEPT ![i].pc = "done", ![i].ok = TRUE]
    /\ CASE version = "mutex" -> mOwner' = None /\ UNCHANGED rwWriter
         [] version = "rwmutex" -> rwWriter' = None /\ UNCHANGED mOwner
         [] OTHER -> UNCHANGED <<mOwner, rwWriter>>
    /\ UNCHANGED <<version, mainPc, iter, id, wg, rwPending, rwReaders, qc, out,
                   dbReturned>>
    /\ UNCHANGED chanVars

\* Mutant of QdDone: wg.Done() stands inside the if, so a goroutine whose
\* query returned false ends without the call.
QdDoneOnlyFound(i) ==
    /\ Running /\ qd[i].pc = "done"
    /\ out' = IF qd[i].ok THEN out \cup {Qd(i)} ELSE out
    /\ wg' = IF Locked /\ qd[i].ok THEN WgDone(wg) ELSE wg
    /\ qd' = [qd EXCEPT ![i].pc = "end"]
    /\ UNCHANGED <<version, mainPc, iter, id, cache, mOwner, rwPending, rwWriter,
                   rwReaders, qc, crashed, dbReturned>>
    /\ UNCHANGED chanVars

\* if ok { fmt.Println("from database"); fmt.Println(b) }; wg.Done()
\* (main.go:52-56; part_001:35-38 has no wg.Done())
QdDone(i) ==
    /\ Running /\ qd[i].pc = "done"
    /\ out' = IF qd[i].ok THEN out \cup {Qd(i)} ELSE out
    /\ IF Locked
       THEN IF WgDone(wg) < 0 THEN crashed' = TRUE /\ wg' = wg
                              ELSE crashed' = crashed /\ wg' = WgDone(wg)
       ELSE UNCHANGED <<wg, crashed>>
    /\ qd' = [qd EXCEPT ![i].pc = "end"]
    /\ UNCHANGED <<version, mainPc, iter, id, cache, mOwner, rwPending, rwWriter,
                   rwReaders, qc, dbReturned>>
    /\ UNCHANGED chanVars

----------------------------------------------------------------------------
\* main of the versions with a WaitGroup (main.go, part_000)
MainStepLocked ==
    \/ MainLoop
    \/ MainGo
    \/ MainWait

MainStep == MainStepLocked \/ MainFinalSleep

QcStep(i) == QcLock(i) \/ QcRead(i) \/ QcDone(i)

QdStep(i) ==
    \/ QdScan(i)
    \/ QdLock(i)
    \/ QdLockWait(i)
    \/ QdWrite(i)
    \/ QdDone(i)

Next ==
    \/ MainStep
    \/ \E i \in Iters : QcStep(i)
    \/ \E i \in Iters : QdStep(i)

Spec == Init /\ [][Next]_vars

\* The two programs that take a lock: main.go and part_000.
InitLocked == Init /\ Locked

NextLocked ==
    \/ MainStepLocked
    \/ \E i \in Iters : QcStep(i)
    \/ \E i \in Iters : QdStep(i)

LockedSpec == InitLocked /\ [][NextLocked]_vars

\* The program without a WaitGroup and without a mutex: part_001.
InitNolock == Init /\ version = "nolock"

NextNolock ==
    \/ MainLoop
    \/ MainGo
    \/ MainFinalSleep
    \/ \E i \in Iters : QcRead(i) \/ QcDone(i)
    \/ \E i \in Iters : QdScan(i) \/ QdWrite(i) \/ QdDone(i)

NolockSpec == InitNolock /\ [][NextNolock]_vars

\* The Go scheduler runs every goroutine that can take a step.
FairLockedSpec ==
    /\ LockedSpec
    /\ WF_vars(MainStepLocked)
    /\ \A i \in Iters : WF_vars(QcStep(i)) /\ WF_vars(QdStep(i))

----------------------------------------------------------------------------
\* Properties of the two programs that take a lock (LockedSpec)

\* A queryCache or queryDatabase call of goroutine record g has returned.
Returned(g) == g.pc \in {"done", "end"}

\* C1 (cache coherence): once a queryDatabase(k) call has returned (r, true),
\* with r the store's record of key k, every queryCache(k) call that starts
\* afterwards returns (r, true).  dbReturned[i] holds the records returned for
\* the key of queryCache call i before the call took its lock.
C1_CacheCoherence ==
    \A i \in Iters :
        /\ \A r \in dbReturned[i] :
              \E n \in 1..Len(books) : books[n] = r /\ r.ID = qc[i].id
        /\ Returned(qc[i]) =>
              \A r \in dbReturned[i] : qc[i].ok /\ qc[i].b = r

\* A queryCache call that started after a queryDatabase call for its key had
\* returned a record has itself returned.
C1_Witness ==
    \E i \in Iters : Returned(qc[i]) /\ dbReturned[i] # {}

\* C2 (writer exclusion): while a goroutine executes cache[id] = b, no other
\* goroutine executes b, ok := cache[id] or cache[id] = b.
C2_WriterExclusion ==
    \A i \in Iters :
        AtWrite(i) =>
            /\ \A j \in Iters : ~AtRead(j)
            /\ \A j \in Iters \ {i} : ~AtWrite(j)

\* A writer executes the map write while a reader and another writer, started
\* by the other iteration, wait for the lock.
C2_Witness ==
    \E i, j \in Iters :
        /\ i # j
        /\ AtWrite(i)
        /\ qc[j].pc = "lock"
        /\ qd[j].pc \in {"lock", "lockwait"}

\* C3 (barrier safety): when wg.Wait() has returned the counter is zero and
\* every goroutine started in the loop has called wg.Done().
C3_BarrierSafety ==
    mainPc = "exited" =>
        /\ wg = 0
        /\ \A i \in Iters : qc[i].pc = "end" /\ qd[i].pc = "end"

\* main has passed wg.Wait().
C3_Witness == mainPc = "exited" /\ iter = NumIters + 1

\* C4 (barrier liveness): under fair scheduling every goroutine started in the
\* loop calls wg.Done(), the counter reaches zero and wg.Wait() returns.
C4_BarrierLiveness ==
    <>(/\ mainPc = "exited"
       /\ wg = 0
       /\ \A i \in Iters : qc[i].pc = "end" /\ qd[i].pc = "end")

\* main has returned after goroutines that found their book and goroutines
\* that did not have all called wg.Done().
C4_Witness ==
    /\ mainPc = "exited"
    /\ \A i \in Iters : qc[i].pc = "end" /\ qd[i].pc = "end"
    /\ \E i, j \in Iters : qd[i].ok /\ ~qd[j].ok /\ ~qc[j].ok

\* C5 (the cache is a subset view of the store): every entry cache[k] is the
\* record of the books store whose ID is k.
C5_CacheSubsetOfStore ==
    \A k \in DOMAIN cache :
        \E n \in 1..Len(books) : books[n].ID = k /\ cache[k] = books[n]

\* The cache holds both records of the store.
C5_Witness == DOMAIN cache = {books[n].ID : n \in 1..Len(books)}

\* C6 (a backing lookup miss leaves the cache unchanged): a queryDatabase(id)
\* call for an id that no book has returns (Book{}, false), never takes or
\* awaits the lock, and its steps leave the cache map and the lock as they are.
C6_MissLeavesCache ==
    /\ [](\A i \in Iters :
            (qd[i].pc # "idle" /\ \A n \in 1..Len(books) : books[n].ID # qd[i].id) =>
                /\ qd[i].pc \in {"sleep", "done", "end"}
                /\ ~HoldsLock(Qd(i)) /\ rwPending # Qd(i)
                /\ Returned(qd[i]) => qd[i].b = ZeroBook /\ ~qd[i].ok)
    /\ [][\A i \in Iters :
            (/\ qd[i].pc # "idle"
             /\ \A n \in 1..Len(books) : books[n].ID # qd[i].id
             /\ qd'[i] # qd[i]) =>
                /\ cache' = cache
                /\ <<mOwner, rwPending, rwWriter, rwReaders>>'
                      = <<mOwner, rwPending, rwWriter, rwReaders>>]_vars

\* A queryDatabase call for an id that no book has has returned while the cache
\* holds an entry.
C6_Witness ==
    \E i \in Iters :
        /\ Returned(qd[i])
        /\ \A n \in 1..Len(books) : books[n].ID # qd[i].id
        /\ cache # <<>>

\* C7 (entries are created only by a successful backing lookup): a key is in
\* the cache, and queryCache(k) has returned true, only if a queryDatabase(k)
\* call has completed its write; the steps of queryCache leave the map as it is.
C7_OnlyLookupCreates ==
    /\ [](/\ \A k \in DOMAIN cache :
                \E j \in Iters : qd[j].id = k /\ Returned(qd[j]) /\ qd[j].ok
          /\ \A i \in Iters :
                qc[i].ok =>
                    \E j \in Iters :
                        qd[j].id = qc[i].id /\ Returned(qd[j]) /\ qd[j].ok)
    /\ [][\A i \in Iters : qc'[i] # qc[i] => cache' = cache]_vars

\* A queryCache call has returned true and another, for a key not yet
\* written, has returned false.
C7_Witness ==
    \E i, j \in Iters :
        /\ Returned(qc[i]) /\ qc[i].ok
        /\ Returned(qc[j]) /\ ~qc[j].ok /\ qc[j].id \notin DOMAIN cache

\* C8 (entries are never removed): an entry of the cache is there, unchanged,
\* after every step; a queryCache(k) that reads after a queryCache(k) returned
\* true returns true with the same record.
C8_NeverRemoved ==
    [][/\ \A k \in DOMAIN cache : k \in DOMAIN cache' /\ cache'[k] = cache[k]
       /\ \A i, j \in Iters :
            (/\ Returned(qc[i]) /\ qc[i].ok /\ qc[j].id = qc[i].id
             /\ qc[j].pc = "read" /\ qc'[j].pc = "done") =>
                qc'[j].ok /\ qc'[j].b = qc[i].b]_vars

\* Two queryCache calls for the same key have both returned true, the second
\* one reading after the first had returned.
C8_Witness ==
    \E i, j \in Iters :
        /\ i # j
        /\ qc[i].pc = "end" /\ qc[i].ok
        /\ qc[j].pc = "done" /\ qc[j].ok /\ qc[j].id = qc[i].id

C10_SleepHoldsNoLock ==
    \A i \in Iters :
        /\ qd[i].pc = "sleep" => ~HoldsLock(Qd(i)) /\ rwPending # Qd(i)
        /\ HoldsLock(Qd(i)) <=> AtWrite(i)
        /\ HoldsLock(Qc(i)) <=> AtRead(i)

\* One goroutine sleeps in queryDatabase while another holds the lock at the
\* map write.
C10_Witness ==
    \E i, j \in Iters :
        qd[i].pc = "sleep" /\ AtWrite(j) /\ HoldsLock(Qd(j))

\* The number of wg.Done() calls made so far: a goroutine stands at "end"
\* exactly when it has made its call.
DoneCalls ==
    Cardinality({i \in Iters : qc[i].pc = "end"})
        + Cardinality({i \in Iters : qd[i].pc = "end"})

\* The number of iterations whose wg.Add(2) main has executed.
ItersStarted == (iter - 1) + (IF mainPc = "go" THEN 1 ELSE 0)

\* C11 (the counter never goes below zero): the wg.Done() calls made so far
\* are at most the tasks registered so far, the counter is their difference,
\* 2 * iterations started - Done calls >= 0, and no wg.Done() has panicked.
C11_CounterNonNegative ==
    /\ ~crashed
    /\ DoneCalls <= 2 * ItersStarted
    /\ wg = 2 * ItersStarted - DoneCalls
    /\ wg >= 0

\* main has registered the tasks of a later iteration and not yet started its
\* goroutines, while goroutines of an earlier iteration have called wg.Done()
\* and others have not.
C11_Witness ==
    /\ mainPc = "go" /\ iter > 1
    /\ DoneCalls > 0
    /\ wg > 2

\* C12 (exactly one completion signal per registered unit): the counter goes
\* down by one exactly in the steps in which a goroutine ends, whether its
\* query returned true or false, a goroutine ends only once, and when main
\* has passed wg.Wait() the calls made equal the 2 per iteration registered.
C12_OneDonePerTask ==
    /\ [](mainPc = "exited" => DoneCalls = 2 * NumIters)
    /\ [][/\ wg' - wg =
               (IF mainPc = "loop" /\ mainPc' = "go" THEN 2 ELSE 0)
                  - Cardinality({i \in Iters : qc[i].pc # "end" /\ qc'[i].pc = "end"})
                  - Cardinality({i \in Iters : qd[i].pc # "end" /\ qd'[i].pc = "end"})
          /\ \A i \in Iters :
                /\ qc[i].pc = "end" => qc'[i].pc = "end"
                /\ qd[i].pc = "end" => qd'[i].pc = "end"
                /\ (qc[i].pc # "end" /\ qc'[i].pc = "end") => qc[i].pc = "done"
                /\ (qd[i].pc # "end" /\ qd'[i].pc = "end") => qd[i].pc = "done"]_vars

\* Goroutines whose query returned true and goroutines whose query returned
\* false have all called wg.Done(), and main has passed wg.Wait().
C12_Witness ==
    /\ mainPc = "exited"
    /\ \E i \in Iters : qd[i].pc = "end" /\ qd[i].ok
    /\ \E i \in Iters : qd[i].pc = "end" /\ ~qd[i].ok
    /\ \E i \in Iters : qc[i].pc = "end" /\ qc[i].ok
    /\ \E i \in Iters : qc[i].pc = "end" /\ ~qc[i].ok

\* C14 (duplicate lookups are idempotent and order-independent): in every
\* state, and so at the end of every interleaving, the cache is the map that
\* performing each distinct completed successful lookup once produces: its
\* keys are the keys of the queryDatabase calls that returned true, each with
\* the store's record of that key.
C14_OrderIndependent ==
    LET keys == {qd[j].id : j \in {x \in Iters : Returned(qd[x]) /\ qd[x].ok}}
    IN /\ DOMAIN cache = keys
       /\ \A k \in keys :
             \E n \in 1..Len(books) : books[n].ID = k /\ cache[k] = books[n]
       /\ \A i, j \in Iters :
             (Returned(qd[i]) /\ Returned(qd[j]) /\ qd[i].id = qd[j].id) =>
                 qd[i].b = qd[j].b /\ qd[i].ok = qd[j].ok

\* Two queryDatabase calls for the same key of the store have both written and
\* returned, and the program has ended.
C14_Witness ==
    /\ mainPc = "exited"
    /\ \E i, j \in Iters :
          i # j /\ qd[i].id = qd[j].id /\ qd[i].ok /\ qd[j].ok

\* C23 (data race in the version without a mutex): nothing orders the map
\* accesses of part_001: no goroutine ever waits for or holds a lock, and in
\* every state in which a goroutine stands at its map read or map write that
\* access can be executed, whatever the other goroutines are executing; when
\* another goroutine is writing, the read can be the one the runtime stops
\* the program for.  The state the claim names is the witness.
C23_NothingOrdersAccesses ==
    version = "nolock" =>
        /\ mOwner = None /\ rwPending = None /\ rwWriter = None /\ rwReaders = {}
        /\ \A i \in Iters :
              /\ qc[i].pc # "lock" /\ qd[i].pc \notin {"lock", "lockwait"}
              /\ (Running /\ AtRead(i)) => ENABLED QcRead(i)
              /\ (Running /\ AtWrite(i)) => ENABLED QdWrite(i)
              /\ (Running /\ AtRead(i) /\ \E j \in Iters : AtWrite(j)) =>
                     ENABLED (QcRead(i) /\ crashed')

\* One goroutine is reading cache[id] in queryCache while another is writing
\* cache[id] = b for the same id in queryDatabase, and a third goroutine is
\* writing at the same time.
C23_Witness ==
    /\ version = "nolock" /\ Running
    /\ \E i, j, k \in Iters :
          /\ AtRead(i) /\ AtWrite(j) /\ qc[i].id = qd[j].id
          /\ k # j /\ AtWrite(k)
          /\ ReadRaces(i) /\ WriteRaces(j)

\* The goroutines of the sync.Mutex version that are between m.Lock() and
\* m.Unlock(): queryCache at its map read, queryDatabase at its map write.
InCritical ==
    {Qc(i) : i \in {x \in Iters : AtRead(x)}}
        \cup {Qd(i) : i \in {x \in Iters : AtWrite(x)}}

\* C24 (mutual exclusion of the sync.Mutex version): at most one goroutine is
\* between m.Lock() and m.Unlock(), reading or writing; the mutex is held by
\* exactly that goroutine and is free when there is none; it is free when
\* main has returned.
C24_MutexExclusion ==
    version = "mutex" =>
        /\ Cardinality(InCritical) <= 1
        /\ \A g \in InCritical : mOwner = g
        /\ InCritical = {} => mOwner = None
        /\ mainPc = "exited" => mOwner = None /\ InCritical = {}

\* A queryCache goroutine holds the mutex at its map read while a
\* queryDatabase goroutine waits in m.Lock() and another has already written
\* and unlocked.
C24_Witness ==
    /\ version = "mutex"
    /\ \E i, j, k \in Iters :
          /\ AtRead(i) /\ mOwner = Qc(i)
          /\ qd[j].pc = "lock"
          /\ Returned(qd[k]) /\ qd[k].ok

MaxCap == 2

\* for i := 0; i < 10; i++ { ch <- i } (notes.md:731)
NumMsgs == 10

Caps == 0..MaxCap

\* The values 0, 1, ..., n-1 in the order the loop sends them.
Ints(n) == [k \in 1..n |-> k - 1]

\* The two programs without goroutines (notes.md:494-499, 518-522): main
\* receives and then sends 42, or sends 42 and then receives.
AlonePrograms ==
    {[mode |-> m, msgs |-> <<42>>, close |-> FALSE, cap |-> c, add |-> AddCount] :
        m \in {"recvsend", "sendrecv"}, c \in Caps}

\* Programs that break the closing rules (notes.md:651-659): one goroutine
\* closes the channel while the other sends 42 and 21 on it, or closes it too.
MisusePrograms ==
    {[mode |-> "close", msgs |-> <<42, 21>>, close |-> FALSE, cap |-> c, add |-> AddCount] : c \in Caps}
    \cup {[mode |-> "close", msgs |-> <<>>, close |-> TRUE, cap |-> c, add |-> AddCount] : c \in Caps}

\* A program that breaks the WaitGroup's rule: the unbuffered program
\* (notes.md:455-475) with one task registered for its two goroutines, so
\* that wg.Done() is called more often than was registered.
OverDonePrograms ==
    {[mode |-> "once", msgs |-> <<42>>, close |-> FALSE, cap |-> c,
      add |-> AddCount - 1] : c \in Caps}

\* The programs of the notes, with the variants their comments name (the
\* capacity, close(ch) commented in or out, ch <- 0 in place of close(ch)),
\* and the programs that break the closing rules.
Programs ==
    AlonePrograms \cup MisusePrograms \cup OverDonePrograms \cup
    {[mode |-> "once", msgs |-> <<42>>, close |-> FALSE, cap |-> c, add |-> AddCount] : c \in Caps}
    \cup {[mode |-> "once", msgs |-> <<42, 21>>, close |-> FALSE, cap |-> c, add |-> AddCount] : c \in Caps}
    \cup {[mode |-> "commaok", msgs |-> <<>>, close |-> TRUE, cap |-> c, add |-> AddCount] : c \in Caps}
    \cup {[mode |-> "commaok", msgs |-> <<0>>, close |-> FALSE, cap |-> c, add |-> AddCount] : c \in Caps}
    \cup {[mode |-> "range", msgs |-> Ints(NumMsgs), close |-> b, cap |-> c, add |-> AddCount] :
             b \in BOOLEAN, c \in Caps}

\* The channel program runs as long as main has not returned and the runtime
\* has not stopped it.
ChRunning == chMain \notin {"idle", "exited"} /\ fatal = "none"

\* Mutant of HasRoom: the buffer takes one message more than its capacity.
HasRoomOneMore(c, cap) == Len(c.buf) <= cap

\* A send finds room in the buffer: a channel of capacity cap saves cap
\* messages without an immediate receiver (notes.md:441-445).
HasRoom(c, cap) == Len(c.buf) < cap

\* Mutant of Enqueue: the message goes in front of the buffered ones.
EnqueueFront(buf, v) == <<v>> \o buf

\* ch <- v on a buffered channel with room.
Enqueue(buf, v) == Append(buf, v)

\* Mutant of CanRecv: a receive on an empty open channel does not wait.
CanRecvAlways(c) == TRUE

\* Mutant of CanRecv: a receive on an empty channel waits, closed or not.
CanRecvBuffered(c) == c.buf # <<>>

\* A receive finds something: a buffered message, or the channel closed
\* (notes.md:655-657).
CanRecv(c) == c.buf # <<>> \/ c.closed

\* Mutant of RecvResult: close discards the buffered messages.
RecvResultClosedFirst(c) ==
    IF c.buf # <<>> /\ ~c.closed
    THEN [msg |-> Head(c.buf), ok |-> TRUE]
    ELSE [msg |-> 0, ok |-> FALSE]

\* msg, ok := <-ch when CanRecv: the oldest buffered message with true, also
\* when the channel is closed; the zero value with false when the channel is
\* closed and empty (notes.md:655-658).
RecvResult(c) ==
    IF c.buf # <<>>
    THEN [msg |-> Head(c.buf), ok |-> TRUE]
    ELSE [msg |-> 0, ok |-> FALSE]

\* Mutant of SenderNext: the sender closes the channel in every program.
SenderNextAlwaysClose(n) ==
    IF n < Len(prog.msgs) THEN "send" ELSE "close"

\* Mutant of SenderNext: the sender never closes the channel.
SenderNextNoClose(n) ==
    IF n < Len(prog.msgs) THEN "send" ELSE "done"

\* The sending goroutine's position once n sends are completed: the next
\* send, then close(ch) if the program has it, then wg.Done().
SenderNext(n) ==
    IF n < Len(prog.msgs) THEN "send"
    ELSE IF prog.close THEN "close" ELSE "done"

\* Mutant of ReceiverNext: every program receives until the channel is
\* closed and empty.
ReceiverNextAgain(res) ==
    IF res.ok THEN "recv" ELSE "done"

\* The receiving goroutine's position after a receive: the range loop goes
\* on until a receive reports the channel closed and empty; the other
\* programs receive once.
ReceiverNext(res) ==
    IF prog.mode = "range" /\ res.ok THEN "recv" ELSE "done"

\* What the receiving goroutine prints after a receive: fmt.Println(<-ch)
\* prints whatever it received; the other programs print when ok.
PrintedAfter(res) ==
    IF prog.mode = "once" \/ res.ok THEN Append(printed, res.msg) ELSE printed

\* The receiving goroutine after a receive with result res.
Received(res) ==
    [pc |-> ReceiverNext(res),
     got |-> IF res.ok THEN Append(receiver.got, res.msg) ELSE receiver.got,
     msg |-> res.msg, ok |-> res.ok, afterClose |-> ch.closed]

\* main's first statement after ch := make(chan int, c).
MainFirst ==
    CASE prog.mode = "recvsend" -> "mrecv"
      [] prog.mode = "sendrecv" -> "msend"
      [] OTHER -> "add"

\* main's position in a program without goroutines after the channel
\* operation at position pc: the other operation, or the end of main.
MainAfter(pc) ==
    CASE prog.mode = "recvsend" /\ pc = "mrecv" -> "msend"
      [] prog.mode = "sendrecv" /\ pc = "msend" -> "mrecv"
      [] OTHER -> "exited"

ChanInit ==
    /\ version = "nolock" /\ mainPc = "exited" /\ iter = 1 /\ id = 0 /\ wg = 0
    /\ cache = <<>> /\ mOwner = None /\ rwPending = None /\ rwWriter = None
    /\ rwReaders = {}
    /\ qc = [i \in Iters |-> [pc |-> "idle", id |-> 0, b |-> ZeroBook, ok |-> FALSE]]
    /\ qd = [i \in Iters |-> [pc |-> "idle", id |-> 0, b |-> ZeroBook, ok |-> FALSE]]
    /\ out = {} /\ crashed = FALSE
    /\ dbReturned = [i \in Iters |-> {}]
    /\ prog \in Programs
    /\ chMain = MainFirst
    /\ chWg = 0
    /\ ch = [buf |-> <<>>, closed |-> FALSE]
    /\ sender = [pc |-> "idle", n |-> 0]
    /\ receiver = [pc |-> "idle", got |-> <<>>, msg |-> 0, ok |-> FALSE,
                   afterClose |-> FALSE]
    /\ printed = <<>>
    /\ fatal = "none"

\* wg.Add(2) (notes.md:721)
ChMainAdd ==
    /\ ChRunning /\ chMain = "add"
    /\ chWg' = chWg + prog.add
    /\ chMain' = "goRecv"
    /\ UNCHANGED <<prog, ch, sender, receiver, printed, fatal>>
    /\ UNCHANGED vars

\* The first statement of the first goroutine: its receive, or close(ch).
ReceiverFirst == IF prog.mode = "close" THEN "close" ELSE "recv"

\* go func(ch chan int, wg *sync.WaitGroup) { ... <-ch ... }(ch, wg) (notes.md:723)
ChMainGoRecv ==
    /\ ChRunning /\ chMain = "goRecv"
    /\ receiver' = [receiver EXCEPT !.pc = ReceiverFirst]
    /\ chMain' = "goSend"
    /\ UNCHANGED <<prog, chWg, ch, sender, printed, fatal>>
    /\ UNCHANGED vars

\* go func(ch chan int, wg *sync.WaitGroup) { ... ch <- ... }(ch, wg) (notes.md:730)
ChMainGoSend ==
    /\ ChRunning /\ chMain = "goSend"
    /\ sender' = [sender EXCEPT !.pc = SenderNext(0)]
    /\ chMain' = "wait"
    /\ UNCHANGED <<prog, chWg, ch, receiver, printed, fatal>>
    /\ UNCHANGED vars

\* wg.Wait() (notes.md:738) returns when the counter is zero; main returns.
ChMainWait ==
    /\ ChRunning /\ chMain = "wait"
    /\ chWg = 0
    /\ chMain' = "exited"
    /\ UNCHANGED <<prog, chWg, ch, sender, receiver, printed, fatal>>
    /\ UNCHANGED vars

\* Mutant of Send: a send on a closed channel drops its value and goes on.
SendDropsWhenClosed ==
    /\ ChRunning /\ sender.pc = "send"
    /\ IF ch.closed
       THEN /\ sender' = [pc |-> SenderNext(sender.n + 1), n |-> sender.n + 1]
            /\ UNCHANGED <<ch, fatal>>
       ELSE /\ HasRoom(ch, prog.cap)
            /\ ch' = [ch EXCEPT !.buf = Enqueue(ch.buf, prog.msgs[sender.n + 1])]
            /\ sender' = [pc |-> SenderNext(sender.n + 1), n |-> sender.n + 1]
            /\ fatal' = fatal
    /\ UNCHANGED <<prog, chMain, chWg, receiver, printed>>
    /\ UNCHANGED vars

\* ch <- v on a channel with room in its buffer, or on a closed channel,
\* which panics (notes.md:577, 654).
Send ==
    /\ ChRunning /\ sender.pc = "send"
    /\ IF ch.closed
       THEN /\ fatal' = "panic"
            /\ UNCHANGED <<ch, sender>>
       ELSE /\ HasRoom(ch, prog.cap)
            /\ ch' = [ch EXCEPT !.buf = Enqueue(ch.buf, prog.msgs[sender.n + 1])]
            /\ sender' = [pc |-> SenderNext(sender.n + 1), n |-> sender.n + 1]
            /\ fatal' = fatal
    /\ UNCHANGED <<prog, chMain, chWg, receiver, printed>>
    /\ UNCHANGED vars

\* A sender at ch <- v and a receiver at <-ch meet on a channel that buffers
\* nothing: the channel is unbuffered (notes.md:455-475).
Rendezvous ==
    /\ sender.pc = "send" /\ receiver.pc = "recv"
    /\ ~ch.closed
    /\ ch.buf = <<>> /\ ~HasRoom(ch, prog.cap)

\* Mutant of SendRecv: a send on an unbuffered channel completes without a
\* receiver, and its value is dropped.
SendRecvDrops ==
    /\ ChRunning /\ sender.pc = "send"
    /\ ~ch.closed
    /\ ch.buf = <<>> /\ ~HasRoom(ch, prog.cap)
    /\ sender' = [pc |-> SenderNext(sender.n + 1), n |-> sender.n + 1]
    /\ UNCHANGED <<prog, chMain, chWg, ch, receiver, printed, fatal>>
    /\ UNCHANGED vars

\* ch <- v and <-ch on an unbuffered channel: the value passes from the
\* sender to the receiver, and both go on (notes.md:464, 470).
SendRecv ==
    /\ ChRunning /\ Rendezvous
    /\ LET res == [msg |-> prog.msgs[sender.n + 1], ok |-> TRUE]
       IN /\ receiver' = Received(res)
          /\ printed' = PrintedAfter(res)
    /\ sender' = [pc |-> SenderNext(sender.n + 1), n |-> sender.n + 1]
    /\ UNCHANGED <<prog, chMain, chWg, ch, fatal>>
    /\ UNCHANGED vars

\* Mutant of Recv: a receive leaves the message it returns in the buffer.
RecvKeeps ==
    /\ ChRunning /\ receiver.pc = "recv"
    /\ CanRecv(ch)
    /\ LET res == RecvResult(ch)
       IN /\ receiver' = Received(res)
          /\ printed' = PrintedAfter(res)
    /\ UNCHANGED <<prog, chMain, chWg, ch, sender, fatal>>
    /\ UNCHANGED vars

\* <-ch on a channel with a buffered message, or closed (notes.md:573, 686, 724).
Recv ==
    /\ ChRunning /\ receiver.pc = "recv"
    /\ CanRecv(ch)
    /\ LET res == RecvResult(ch)
       IN /\ receiver' = Received(res)
          /\ printed' = PrintedAfter(res)
    /\ ch' = [ch EXCEPT !.buf = IF ch.buf # <<>> THEN Tail(ch.buf) ELSE ch.buf]
    /\ UNCHANGED <<prog, chMain, chWg, sender, fatal>>
    /\ UNCHANGED vars

\* Mutant of Close: closing a closed channel does nothing.
CloseAgainIgnored ==
    /\ ChRunning /\ sender.pc = "close"
    /\ ch' = [ch EXCEPT !.closed = TRUE]
    /\ sender' = [sender EXCEPT !.pc = "done"]
    /\ UNCHANGED <<prog, chMain, chWg, receiver, printed, fatal>>
    /\ UNCHANGED vars

\* close(ch) (notes.md:696, 734); closing a closed channel panics.
Close ==
    /\ ChRunning /\ sender.pc = "close"
    /\ IF ch.closed
       THEN /\ fatal' = "panic"
            /\ UNCHANGED <<ch, sender>>
       ELSE /\ ch' = [ch EXCEPT !.closed = TRUE]
            /\ sender' = [sender EXCEPT !.pc = "done"]
            /\ fatal' = fatal
    /\ UNCHANGED <<prog, chMain, chWg, receiver, printed>>
    /\ UNCHANGED vars

\* close(ch) called by the first goroutine of the programs that break the
\* closing rules; closing a closed channel panics.
ReceiverClose ==
    /\ ChRunning /\ receiver.pc = "close"
    /\ IF ch.closed
       THEN /\ fatal' = "panic"
            /\ UNCHANGED <<ch, receiver>>
       ELSE /\ ch' = [ch EXCEPT !.closed = TRUE]
            /\ receiver' = [receiver EXCEPT !.pc = "done"]
            /\ fatal' = fatal
    /\ UNCHANGED <<prog, chMain, chWg, sender, printed>>
    /\ UNCHANGED vars

\* Mutant of SenderDone: wg.Done() lowers the counter whatever it is.
SenderDoneUnchecked ==
    /\ ChRunning /\ sender.pc = "done"
    /\ chWg' = WgDone(chWg)
    /\ sender' = [sender EXCEPT !.pc = "end"]
    /\ UNCHANGED <<prog, chMain, ch, receiver, printed, fatal>>
    /\ UNCHANGED vars

\* wg.Done() of the sending goroutine (notes.md:735); wg.Done() on a counter
\* of zero panics.
SenderDone ==
    /\ ChRunning /\ sender.pc = "done"
    /\ IF WgDone(chWg) < 0
       THEN fatal' = "panic" /\ chWg' = chWg
       ELSE fatal' = fatal /\ chWg' = WgDone(chWg)
    /\ sender' = [sender EXCEPT !.pc = "end"]
    /\ UNCHANGED <<prog, chMain, ch, receiver, printed>>
    /\ UNCHANGED vars

\* wg.Done() of the receiving goroutine (notes.md:727)
ReceiverDone ==
    /\ ChRunning /\ receiver.pc = "done"
    /\ IF WgDone(chWg) < 0
       THEN fatal' = "panic" /\ chWg' = chWg
       ELSE fatal' = fatal /\ chWg' = WgDone(chWg)
    /\ receiver' = [receiver EXCEPT !.pc = "end"]
    /\ UNCHANGED <<prog, chMain, ch, sender, printed>>
    /\ UNCHANGED vars

\* The sending goroutine has ended or waits in a send nothing can take.
SenderAsleep ==
    \/ sender.pc = "end"
    \/ /\ sender.pc = "send" /\ ~ch.closed
       /\ ~HasRoom(ch, prog.cap) /\ ~Rendezvous

\* The receiving goroutine has ended or waits in a receive nothing feeds.
ReceiverAsleep ==
    \/ receiver.pc = "end"
    \/ receiver.pc = "recv" /\ ~CanRecv(ch) /\ ~Rendezvous

\* fatal error: all goroutines are asleep - deadlock! (notes.md:532-543):
\* main waits in wg.Wait() and no goroutine can take a step.
Deadlock ==
    /\ ChRunning /\ chMain = "wait" /\ chWg > 0
    /\ SenderAsleep /\ ReceiverAsleep
    /\ fatal' = "deadlock"
    /\ UNCHANGED <<prog, chMain, chWg, ch, sender, receiver, printed>>
    /\ UNCHANGED vars

\* fmt.Println(<-ch) executed by main (notes.md:497, 521).  The operation
\* counts as the program's receive in the receiver's got, msg and ok.
MainRecv ==
    /\ ChRunning /\ chMain = "mrecv"
    /\ CanRecv(ch)
    /\ LET res == RecvResult(ch)
       IN /\ receiver' = [receiver EXCEPT
                             !.got = IF res.ok THEN Append(receiver.got, res.msg)
                                     ELSE receiver.got,
                             !.msg = res.msg, !.ok = res.ok,
                             !.afterClose = ch.closed]
          /\ printed' = Append(printed, res.msg)
    /\ ch' = [ch EXCEPT !.buf = IF ch.buf # <<>> THEN Tail(ch.buf) ELSE ch.buf]
    /\ chMain' = MainAfter(chMain)
    /\ UNCHANGED <<prog, chWg, sender, fatal>>
    /\ UNCHANGED vars

\* ch <- 42 executed by main (notes.md:498, 520).  The operation counts as
\* the program's send in the sender's n.
MainSend ==
    /\ ChRunning /\ chMain = "msend"
    /\ IF ch.closed
       THEN /\ fatal' = "panic"
            /\ UNCHANGED <<ch, sender, chMain>>
       ELSE /\ HasRoom(ch, prog.cap)
            /\ ch' = [ch EXCEPT !.buf = Enqueue(ch.buf, prog.msgs[sender.n + 1])]
            /\ sender' = [sender EXCEPT !.n = sender.n + 1]
            /\ chMain' = MainAfter(chMain)
            /\ fatal' = fatal
    /\ UNCHANGED <<prog, chWg, receiver, printed>>
    /\ UNCHANGED vars

\* fatal error: all goroutines are asleep - deadlock!  goroutine 1 [chan
\* send] (notes.md:535-538): main, the only goroutine, waits in a receive
\* nothing feeds or in a send nothing can take.
DeadlockAlone ==
    /\ ChRunning
    /\ \/ chMain = "mrecv" /\ ~CanRecv(ch)
       \/ chMain = "msend" /\ ~ch.closed /\ ~HasRoom(ch, prog.cap)
    /\ fatal' = "deadlock"
    /\ UNCHANGED <<prog, chMain, chWg, ch, sender, receiver, printed>>
    /\ UNCHANGED vars

ChMainStep == ChMainAdd \/ ChMainGoRecv \/ ChMainGoSend \/ ChMainWait

AloneStep == MainRecv \/ MainSend

SenderStep == Send \/ Close \/ SenderDone

ReceiverStep == Recv \/ ReceiverClose \/ ReceiverDone

ChanNext ==
    \/ ChMainStep
    \/ SenderStep
    \/ ReceiverStep
    \/ SendRecv
    \/ Deadlock
    \/ AloneStep
    \/ DeadlockAlone

ChanSpec == ChanInit /\ [][ChanNext]_allVars

\* The Go scheduler lets every goroutine that can take a step take one.
FairChanSpec ==
    /\ ChanSpec
    /\ WF_allVars(ChMainStep)
    /\ WF_allVars(SenderStep)
    /\ WF_allVars(ReceiverStep)
    /\ WF_allVars(SendRecv)
    /\ WF_allVars(Deadlock)
    /\ WF_allVars(AloneStep)
    /\ WF_allVars(DeadlockAlone)

\* The range program with close(ch) commented in (notes.md:716-739, 799).
RangeWithClose == prog.mode = "range" /\ prog.close

\* The close program (notes.md:669-701).
CloseExample == prog.mode = "commaok" /\ prog.close

\* The program that sends 42 and 21 to a single receive (notes.md:566-583).
TwoSendsOneRecv == prog.mode = "once" /\ prog.msgs = <<42, 21>>

\* The messages whose send has completed, in the order sent.
Sent == SubSeq(prog.msgs, 1, sender.n)

\* C15 (the range program with close terminates): the producer sends 0..9 and
\* closes the channel; under every fair interleaving, for capacity 1 and for
\* every other capacity, the runtime never stops the program, main returns
\* from wg.Wait(), and then the consumer's loop has received and printed
\* exactly 0..9 in order and both goroutines have called wg.Done().
C15_RangeTerminates ==
    /\ [](RangeWithClose => fatal = "none")
    /\ [](RangeWithClose /\ chMain = "exited" =>
             /\ receiver.got = Ints(NumMsgs)
             /\ printed = Ints(NumMsgs)
             /\ receiver.pc = "end" /\ sender.pc = "end"
             /\ chWg = 0)
    /\ <>(RangeWithClose => chMain = "exited")

\* The range program with close on the capacity-1 channel has ended: all 10
\* values were received and main has returned.
C15_Witness ==
    /\ RangeWithClose /\ prog.cap = 1
    /\ chMain = "exited"
    /\ Len(receiver.got) = NumMsgs

\* C16 (a bounded buffer blocks the sender when full): the buffer never holds
\* more than the capacity; a send on an open channel whose buffer has room
\* can complete at once, receiver or not; and with the buffer at capacity a
\* send completes only in a step in which the receiver takes a value.
C16_BlocksWhenFull ==
    /\ [](Len(ch.buf) <= prog.cap)
    /\ [](ChRunning /\ sender.pc = "send" /\ ~ch.closed /\ Len(ch.buf) < prog.cap
             => ENABLED Send)
    /\ [][(sender'.n # sender.n /\ Len(ch.buf) >= prog.cap) =>
             Len(receiver'.got) = Len(receiver.got) + 1]_allVars

\* With nothing received yet, as many sends as the capacity have completed,
\* the buffer is full and the sender stands at its next send.
C16_Witness ==
    /\ prog.cap >= 1
    /\ receiver.got = <<>> /\ receiver.pc = "recv"
    /\ sender.n = prog.cap /\ Len(ch.buf) = prog.cap
    /\ sender.pc = "send"

\* C17 (the channel is first-in first-out): for every capacity, 0 included,
\* the messages sent so far are the messages received followed by the
\* messages buffered, in the order sent, so that the received sequence is a
\* prefix of the sent sequence: nothing is lost, duplicated or reordered.
C17_Fifo ==
    /\ Sent = receiver.got \o ch.buf
    /\ Len(receiver.got) <= Len(prog.msgs)
    /\ receiver.got = SubSeq(prog.msgs, 1, Len(receiver.got))

\* Several messages were received while several others wait in the buffer.
C17_Witness ==
    /\ Len(receiver.got) >= 2
    /\ Len(ch.buf) >= 2

\* C18 (send 42, send 21, one receive, capacity 1): once the receiver has
\* received, in every interleaving, it holds 42 and has printed 42: never 21
\* and never a zero value.
C18_ReceivesFirst ==
    (TwoSendsOneRecv /\ prog.cap = 1 /\ receiver.pc \in {"done", "end"}) =>
        /\ receiver.msg = 42 /\ receiver.ok
        /\ receiver.got = <<42>>
        /\ printed = <<42>>

\* The receiver has received from the capacity-1 channel, and the sender has
\* completed its second send.
C18_Witness ==
    /\ TwoSendsOneRecv /\ prog.cap = 1
    /\ receiver.pc \in {"done", "end"}
    /\ sender.n = 2

C20_BufferSurvivesClose ==
    /\ [][(receiver.pc = "recv" /\ receiver' # receiver /\ ch.buf # <<>>) =>
             /\ receiver'.msg = Head(ch.buf) /\ receiver'.ok
             /\ ch'.buf = Tail(ch.buf)]_allVars
    /\ [][(receiver.pc = "recv" /\ receiver' # receiver /\ ~receiver'.ok) =>
             ch.closed /\ ch.buf = <<>>]_allVars

\* The receiver's last receive took a buffered value with ok = true from the
\* channel after close(ch).
C20_Witness ==
    /\ receiver.afterClose /\ receiver.ok
    /\ ch.closed

\* The program that sends 42 once to a single receive on an unbuffered
\* channel (notes.md:455-475).
UnbufferedExample ==
    /\ prog.mode = "once" /\ prog.msgs = <<42>> /\ prog.cap = 0
    /\ prog.add = AddCount

\* The range program with close(ch) commented out (notes.md:716-739).
RangeWithoutClose == prog.mode = "range" /\ ~prog.close

\* C26 (unbuffered rendezvous): with capacity 0, one receive and one send of
\* 42, nothing is ever buffered, the send completes only in the step in which
\* the receiver, waiting in its receive, takes the 42; the receiver holds and
\* prints 42; and under every fair interleaving the runtime never stops the
\* program and main returns from wg.Wait() with both goroutines ended.
C26_Rendezvous ==
    /\ [](UnbufferedExample => fatal = "none" /\ ch.buf = <<>>)
    /\ [](UnbufferedExample /\ receiver.pc \in {"done", "end"} =>
             receiver.msg = 42 /\ receiver.ok /\ printed = <<42>>)
    /\ [](UnbufferedExample /\ chMain = "exited" =>
             receiver.pc = "end" /\ sender.pc = "end" /\ chWg = 0)
    /\ [][(UnbufferedExample /\ sender'.n # sender.n) =>
             /\ receiver.pc = "recv" /\ receiver'.pc = "done"
             /\ receiver'.msg = 42 /\ receiver'.got = <<42>>]_allVars
    /\ <>(UnbufferedExample => chMain = "exited")

\* The unbuffered program has ended: the 42 has passed and main has returned.
C26_Witness ==
    /\ UnbufferedExample
    /\ chMain = "exited"
    /\ sender.n = 1 /\ receiver.got = <<42>>

\* C28 (capacity 0, send 42, send 21, one receive): the second send never
\* completes, the sender never calls wg.Done(), main never returns from
\* wg.Wait(), and under every fair interleaving the program ends in the
\* runtime's deadlock error.
C28_SecondSendDeadlocks ==
    /\ [](TwoSendsOneRecv /\ prog.cap = 0 =>
             /\ sender.n <= 1 /\ sender.pc \in {"idle", "send"}
             /\ chWg >= 1 \/ chMain = "add"
             /\ chMain # "exited"
             /\ fatal # "panic")
    /\ <>((TwoSendsOneRecv /\ prog.cap = 0) => fatal = "deadlock")

\* The receiver has taken 42 and ended, the sender waits in its second send,
\* and the runtime has reported the deadlock.
C28_Witness ==
    /\ TwoSendsOneRecv /\ prog.cap = 0
    /\ fatal = "deadlock"
    /\ receiver.pc = "end" /\ receiver.got = <<42>>
    /\ sender.pc = "send" /\ sender.n = 1

\* C29 (capacity 1, send 42, send 21, one receive): the runtime never stops
\* the program and 21 is never received; under every fair interleaving main
\* returns from wg.Wait(), and then both goroutines have ended and 21 is
\* still in the buffer.
C29_SecondValueLeftBehind ==
    /\ [](TwoSendsOneRecv /\ prog.cap = 1 =>
             /\ fatal = "none"
             /\ receiver.msg # 21
             /\ \A k \in 1..Len(receiver.got) : receiver.got[k] # 21)
    /\ [](TwoSendsOneRecv /\ prog.cap = 1 /\ chMain = "exited" =>
             /\ ch.buf = <<21>>
             /\ receiver.got = <<42>>
             /\ sender.pc = "end" /\ receiver.pc = "end" /\ chWg = 0)
    /\ <>((TwoSendsOneRecv /\ prog.cap = 1) => chMain = "exited")

\* The capacity-1 program has ended with 21 in the buffer.
C29_Witness ==
    /\ TwoSendsOneRecv /\ prog.cap = 1
    /\ chMain = "exited"
    /\ ch.buf = <<21>>

\* C30 (range without close deadlocks): for capacity 1 and for every other
\* capacity, the consumer never leaves its loop and never calls wg.Done(),
\* main never returns from wg.Wait(), and under every fair interleaving the
\* consumer receives 0..9 in order and then waits in the next receive, with
\* the producer ended, until the runtime reports the deadlock.
C30_RangeWithoutCloseDeadlocks ==
    /\ [](RangeWithoutClose =>
             /\ receiver.pc \in {"idle", "recv"}
             /\ chWg >= 1 \/ chMain = "add"
             /\ chMain # "exited"
             /\ fatal # "panic"
             /\ ~ch.closed)
    /\ [](RangeWithoutClose /\ fatal = "deadlock" =>
             /\ receiver.got = Ints(NumMsgs) /\ printed = Ints(NumMsgs)
             /\ receiver.pc = "recv" /\ sender.pc = "end"
             /\ ch.buf = <<>>)
    /\ <>(RangeWithoutClose => fatal = "deadlock")

\* On the capacity-1 channel the consumer has received all 10 values, the
\* producer has ended without close(ch), and the runtime has reported the
\* deadlock.
C30_Witness ==
    /\ RangeWithoutClose /\ prog.cap = 1
    /\ fatal = "deadlock"
    /\ Len(receiver.got) = NumMsgs
    /\ sender.pc = "end"

\* A program without goroutines on an unbuffered channel (notes.md:494-499,
\* 518-522).
AloneUnbuffered == prog \in AlonePrograms /\ prog.cap = 0

\* C27 (a single goroutine cannot use an unbuffered channel alone): main
\* never gets past its first channel operation, be it the receive of
\* "receive then send" or the send of "send then receive": nothing is ever
\* sent, received or printed and main never returns; under every fair
\* interleaving the program ends in the runtime's deadlock error.
C27_AloneDeadlocks ==
    /\ [](AloneUnbuffered =>
             /\ chMain = MainFirst
             /\ sender.n = 0 /\ ch.buf = <<>>
             /\ receiver.got = <<>> /\ printed = <<>>
             /\ fatal # "panic")
    /\ <>(AloneUnbuffered => fatal = "deadlock")

\* main stands at the send of "send then receive" on the unbuffered channel
\* and the runtime has reported the deadlock.
C27_Witness ==
    /\ AloneUnbuffered /\ prog.mode = "sendrecv"
    /\ chMain = "msend"
    /\ fatal = "deadlock"

\* C21 (sending on a closed channel is fatal): a send on a closed channel,
\* one that waited on a full buffer when the channel was closed included, is
\* never blocked and can only panic: while the channel is closed and the
\* sender stands at a send, no send completes, the buffer gains nothing and
\* the sender does not move on; under every fair interleaving the program
\* ends in the panic.
C21_SendOnClosedPanics ==
    /\ [](ChRunning /\ ch.closed /\ sender.pc = "send" => ENABLED Send)
    /\ [][(ch.closed /\ sender.pc = "send") =>
             /\ sender' = sender
             /\ ch' = ch
             /\ fatal' \in {fatal, "panic"}]_allVars
    /\ [](fatal = "panic" /\ prog \in MisusePrograms /\ ~prog.close =>
             ch.closed /\ sender.pc = "send" /\ sender.n < Len(prog.msgs))
    /\ ((ChRunning /\ ch.closed /\ sender.pc = "send") ~> fatal = "panic")

\* The sender filled the buffer and waited in its next send when the other
\* goroutine closed the channel; the send has panicked, and the buffer holds
\* what it held.
C21_Witness ==
    /\ prog.mode = "close" /\ ~prog.close /\ prog.cap = 1
    /\ fatal = "panic"
    /\ ch.closed /\ ch.buf = <<42>>
    /\ sender.pc = "send" /\ sender.n = 1
    /\ receiver.pc = "end"

====
